---- MODULE Spec2Model ----
(***************************************************************************)
(* A model of the code-smell detector and refactoring engine               *)
(* (src/refactoring.py) and of the Streamlit page that drives it           *)
(* (src/app.py).                                                           *)
(*                                                                         *)
(* A program is a sequence of top-level function definitions; a statement  *)
(* is a record; ast.unparse is modelled as the sequence of text lines it   *)
(* emits, each line an indentation and the whitespace-separated tokens.    *)
(***************************************************************************)
EXTENDS Integers, Sequences, FiniteSets, TLC

(***************************************************************************)
(* Bounds of the model and constants of the program.                       *)
(***************************************************************************)
\* Largest number of statements in an uploaded program (all bodies together).
MaxStmts == 6

\* Uploaded programs with attribute stores have at most MaxAttrStmts statements.
MaxAttrStmts == 4

\* Uploaded programs of two copies of one body have bodies of at most
\* MaxTwinBody statements.
MaxTwinBody == 4

\* window_size=2 of detect_duplicate_blocks and refactor_duplicate_blocks.
window_size == 2

\* similarity_threshold=0.75 of detect_duplicate_blocks, as SimNum / SimDen.
SimNum == 3
SimDen == 4

(***************************************************************************)
(* Statements (ast.stmt) and their rendering by ast.unparse.               *)
(*                                                                         *)
(* value is an expression: a sum of names (func = "") or a call of func    *)
(* with the names as positional arguments.  "None" is the constant None.   *)
(* targets[0] of an assignment is the ast.Name target when attr = "", and  *)
(* the ast.Attribute target.attr of the object named target otherwise.     *)
(***************************************************************************)
Assign(t, v) ==
    [kind |-> "Assign", target |-> t, attr |-> "", func |-> "", value |-> v, body |-> <<>>]
AssignCall(t, fn, v) ==
    [kind |-> "Assign", target |-> t, attr |-> "", func |-> fn, value |-> v, body |-> <<>>]
AugAssign(t, v) ==
    [kind |-> "AugAssign", target |-> t, attr |-> "", func |-> "", value |-> v, body |-> <<>>]
Return(v) ==
    [kind |-> "Return", target |-> "", attr |-> "", func |-> "", value |-> v, body |-> <<>>]
ReturnCall(fn, v) ==
    [kind |-> "Return", target |-> "", attr |-> "", func |-> fn, value |-> v, body |-> <<>>]
ExprCall(fn, v) ==
    [kind |-> "Expr", target |-> "", attr |-> "", func |-> fn, value |-> v, body |-> <<>>]
\* o.at = v
AssignAttr(o, at, v) ==
    [kind |-> "Assign", target |-> o, attr |-> at, func |-> "", value |-> v, body |-> <<>>]
If(test, b) ==
    [kind |-> "If", target |-> "", attr |-> "", func |-> "", value |-> <<test>>, body |-> b]

\* ast.Constant(value=None)
NoneConst == "None"

RECURSIVE SumToks(_)
\* a, a + b, a + b + c
SumToks(v) ==
    IF Len(v) = 0 THEN <<>>
    ELSE IF Len(v) = 1 THEN <<v[1]>>
    ELSE <<v[1], "+">> \o SumToks(Tail(v))

\* fn(), fn(a), fn(a, b): the blank after each comma splits the text in tokens.
CallToks(fn, v) ==
    IF Len(v) = 0 THEN <<fn \o "()">>
    ELSE IF Len(v) = 1 THEN <<fn \o "(" \o v[1] \o ")">>
    ELSE [i \in 1..Len(v) |->
            IF i = 1 THEN fn \o "(" \o v[1] \o ","
            ELSE IF i = Len(v) THEN v[i] \o ")"
            ELSE v[i] \o ","]

ExprToks(s) == IF s.func = "" THEN SumToks(s.value) ELSE CallToks(s.func, s.value)

Line(ind, toks) == [indent |-> ind, toks |-> toks]

Indented(lines) == [i \in 1..Len(lines) |-> Line(lines[i].indent + 4, lines[i].toks)]

\* The text of targets[0]: x, or o.v
TargetText(s) == IF s.attr = "" THEN s.target ELSE s.target \o "." \o s.attr

RECURSIVE UnparseStmt(_)
RECURSIVE UnparseAll(_)
\* ast.unparse of one statement: its text lines.
UnparseStmt(s) ==
    CASE s.kind = "Assign" -> <<Line(0, <<TargetText(s), "=">> \o ExprToks(s))>>
      [] s.kind = "AugAssign" -> <<Line(0, <<TargetText(s), "+=">> \o ExprToks(s))>>
      [] s.kind = "Return" -> <<Line(0, <<"return">> \o ExprToks(s))>>
      [] s.kind = "Expr" -> <<Line(0, ExprToks(s))>>
      [] s.kind = "If" ->
            <<Line(0, <<"if", s.value[1] \o ":">>)>> \o Indented(UnparseAll(s.body))

\* "\n".join([ast.unparse(n) for n in nodes]): the lines of all the statements.
UnparseAll(stmts) ==
    IF Len(stmts) = 0 THEN <<>>
    ELSE UnparseStmt(Head(stmts)) \o UnparseAll(Tail(stmts))

\* set(block_code.split()): the set of whitespace-separated tokens of a text.
TokenSet(lines) ==
    UNION {{lines[i].toks[k] : k \in 1..Len(lines[i].toks)} : i \in 1..Len(lines)}

\* "\n".join(line.strip() for line in text.splitlines() if line.strip())
NormalizedBody(lines) ==
    LET kept == SelectSeq(lines, LAMBDA l : Len(l.toks) > 0)
    IN [i \in 1..Len(kept) |-> kept[i].toks]

(***************************************************************************)
(* Programs: ast.Module.body as a sequence of ast.FunctionDef.             *)
(***************************************************************************)
FunctionDef(n, a, b) == [name |-> n, args |-> a, body |-> b]

FuncNames == <<"f", "g", "h">>

\* The parameter list each function of an uploaded program is declared with.
ParamsOf(n) ==
    CASE n = "f" -> <<"y", "a">>
      [] n = "g" -> <<"a">>
      [] OTHER -> <<"a", "b", "c", "y">>

\* The statements uploaded programs are written with.
Statements ==
    {Assign("x", <<"y">>), Assign("x", <<"a">>), Return(<<"x">>)}

Bodies(n) == [1..n -> Statements]

\* Statements of programs that store into an attribute and call a function
\* for its effect.
AttrStatements ==
    {AssignAttr("o", "v", <<"a">>), ExprCall("log", <<"a">>),
     Assign("x", <<"y">>), Return(<<"x">>)}

MkProgram(bs) == [i \in 1..Len(bs) |-> FunctionDef(FuncNames[i], ParamsOf(FuncNames[i]), bs[i])]

\* The body lengths of a program of one to three functions with at most
\* n statements (0: the function is absent).
BodyLengths(n) ==
    {u \in (1..n) \X (0..n) \X (0..n) :
        /\ u[1] + u[2] + u[3] <= n
        /\ (u[2] = 0 => u[3] = 0)}

\* The functions that are present: the bodies up to the first empty one.
Present(bs) == SubSeq(bs, 1, Cardinality({i \in 1..Len(bs) : Len(bs[i]) > 0}))

\* node.body[i:i+n] with a 0-based start index i (a Python slice: clipped).
Slice(body, i, n) ==
    IF i >= Len(body) THEN <<>>
    ELSE SubSeq(body, i + 1, IF i + n <= Len(body) THEN i + n ELSE Len(body))

\* The index of the first node of the tree named n, 0 when there is none:
\* for node in tree.body: if isinstance(node, ast.FunctionDef) and node.name == n
FindFunc(t, n) ==
    IF \E k \in 1..Len(t) : t[k].name = n
      THEN CHOOSE k \in 1..Len(t) :
              /\ t[k].name = n
              /\ \A m \in 1..(k - 1) : t[m].name # n
      ELSE 0

(***************************************************************************)
(* detect_duplicate_functions                                              *)
(***************************************************************************)
CanonicalBody(fn) == NormalizedBody(UnparseAll(fn.body))

RECURSIVE DupFuncsFromLatest(_, _, _, _)
\* As DupFuncsFrom, but function_map is overwritten with every function, so
\* the primary of a pair is the latest function with the text, not the first.
DupFuncsFromLatest(tree, k, function_map, duplicates) ==
    IF k > Len(tree) THEN duplicates
    ELSE LET nb == CanonicalBody(tree[k])
             updated == [t \in DOMAIN function_map \cup {nb} |->
                           IF t = nb THEN tree[k].name ELSE function_map[t]]
         IN IF nb \in DOMAIN function_map
              THEN DupFuncsFromLatest(tree, k + 1, updated,
                                      Append(duplicates, <<function_map[nb], tree[k].name>>))
              ELSE DupFuncsFromLatest(tree, k + 1, updated, duplicates)

RECURSIVE DupFuncsFrom(_, _, _, _)
\* The loop over tree.body from node k on, with function_map and duplicates.
DupFuncsFrom(tree, k, function_map, duplicates) ==
    IF k > Len(tree) THEN duplicates
    ELSE LET nb == CanonicalBody(tree[k])
         IN IF nb \in DOMAIN function_map
              THEN DupFuncsFrom(tree, k + 1, function_map,
                                Append(duplicates, <<function_map[nb], tree[k].name>>))
              ELSE DupFuncsFrom(tree, k + 1, (nb :> tree[k].name) @@ function_map,
                                duplicates)

detect_duplicate_functions(tree) == DupFuncsFrom(tree, 1, <<>>, <<>>)

(***************************************************************************)
(* detect_duplicate_blocks                                                 *)
(***************************************************************************)
Block(fn, i, lines) == [func |-> fn, start |-> i, code |-> lines, tokens |-> TokenSet(lines)]

RECURSIVE WindowsOf(_, _)
\* The windows of one function from start index i on.
WindowsOf(fn, i) ==
    IF i > Len(fn.body) - window_size THEN <<>>
    ELSE <<Block(fn.name, i, UnparseAll(Slice(fn.body, i, window_size)))>>
         \o WindowsOf(fn, i + 1)

RECURSIVE BlocksList(_)
BlocksList(tree) ==
    IF Len(tree) = 0 THEN <<>>
    ELSE (IF Len(Head(tree).body) < window_size THEN <<>> ELSE WindowsOf(Head(tree), 0))
         \o BlocksList(Tail(tree))

\* similarity >= similarity_threshold, for two token sets.
Similar(ti, tj) ==
    /\ ti # {}
    /\ tj # {}
    /\ SimDen * Cardinality(ti \cap tj) >= SimNum * Cardinality(ti \cup tj)

RECURSIVE ScanFromChained(_, _, _, _, _)
\* As ScanFrom, but a window is compared with the member that joined last
\* instead of with the seed.
ScanFromChained(bl, i, j, group, used) ==
    IF j > Len(bl) THEN [group |-> group, used |-> used]
    ELSE IF bl[i].func = bl[j].func THEN ScanFromChained(bl, i, j + 1, group, used)
    ELSE IF j \in used THEN ScanFromChained(bl, i, j + 1, group, used)
    ELSE IF Similar(group[Len(group)].tokens, bl[j].tokens)
           THEN ScanFromChained(bl, i, j + 1, Append(group, bl[j]), used \cup {j})
           ELSE ScanFromChained(bl, i, j + 1, group, used)

RECURSIVE ScanFrom(_, _, _, _, _)
\* The inner loop over j: the group of seed i and the used set after it.
ScanFrom(bl, i, j, group, used) ==
    IF j > Len(bl) THEN [group |-> group, used |-> used]
    ELSE IF bl[i].func = bl[j].func THEN ScanFrom(bl, i, j + 1, group, used)
    ELSE IF j \in used THEN ScanFrom(bl, i, j + 1, group, used)
    ELSE IF Similar(bl[i].tokens, bl[j].tokens)
           THEN ScanFrom(bl, i, j + 1, Append(group, bl[j]), used \cup {j})
           ELSE ScanFrom(bl, i, j + 1, group, used)

RECURSIVE GroupsFrom(_, _, _, _)
\* The outer loop over i.
GroupsFrom(bl, i, used, groups) ==
    IF i > Len(bl) THEN groups
    ELSE IF i \in used THEN GroupsFrom(bl, i + 1, used, groups)
    ELSE LET r == ScanFrom(bl, i, i + 1, <<bl[i]>>, used \cup {i})
         IN GroupsFrom(bl, i + 1, r.used,
                       IF Len(r.group) > 1 THEN Append(groups, r.group) ELSE groups)

detect_duplicate_blocks(tree) == GroupsFrom(BlocksList(tree), 1, {}, <<>>)


(***************************************************************************)
(* get_free_vars                                                           *)
(***************************************************************************)
\* The ast.Name nodes of a statement in Load context: those of its expression
\* (None is an ast.Constant, the callee of a call is an ast.Name) and the
\* object of an attribute target.
LoadNames(s) ==
    {s.value[k] : k \in {m \in 1..Len(s.value) : s.value[m] # NoneConst}}
    \cup (IF s.func = "" THEN {} ELSE {s.func})
    \cup (IF s.attr = "" THEN {} ELSE {s.target})

\* The ast.Name nodes of a statement in Store context.
StoreNames(s) ==
    IF s.kind \in {"Assign", "AugAssign"} /\ s.attr = "" THEN {s.target} ELSE {}

RECURSIVE VisitAll(_, _)
\* FreeVarVisitor over the nodes, in order: acc.free_vars collects the names
\* in Load context, acc.assigned those in Store context.
VisitAll(nodes, acc) ==
    IF Len(nodes) = 0 THEN acc
    ELSE LET s == Head(nodes)
             here == [free_vars |-> acc.free_vars \cup LoadNames(s),
                      assigned |-> acc.assigned \cup StoreNames(s)]
         IN VisitAll(Tail(nodes), IF s.kind = "If" THEN VisitAll(s.body, here) ELSE here)

RECURSIVE ReadBeforeWritten(_, _)
\* The names read at a point where no earlier statement has written them.
ReadBeforeWritten(nodes, acc) ==
    IF Len(nodes) = 0 THEN acc
    ELSE LET s == Head(nodes)
             here == [free_vars |-> acc.free_vars \cup (LoadNames(s) \ acc.assigned),
                      assigned |-> acc.assigned \cup StoreNames(s)]
         IN ReadBeforeWritten(Tail(nodes),
                              IF s.kind = "If" THEN ReadBeforeWritten(s.body, here) ELSE here)

\* As get_free_vars, but flow-sensitive: a name read before it is written
\* in the block counts as free.
get_free_vars_flow(nodes) ==
    ReadBeforeWritten(nodes, [free_vars |-> {}, assigned |-> {}]).free_vars

get_free_vars(nodes) ==
    LET r == VisitAll(nodes, [free_vars |-> {}, assigned |-> {}])
    IN r.free_vars \ r.assigned

\* The identifiers of the model in the order of Python's string comparison.
IdentOrder ==
    <<"a", "b", "c", "common_block", "common_block_1", "common_block_2", "common_block_3",
      "f", "g", "h", "helper", "helper_1", "helper_2", "helper_3", "log", "o", "x", "y">>

\* sorted(names)
Sorted(names) == SelectSeq(IdentOrder, LAMBDA n : n \in names)

(***************************************************************************)
(* refactor_duplicate_functions                                            *)
(***************************************************************************)
RECURSIVE PairMapping(_, _)
\* mapping[duplicate] = primary for each pair in order: a later pair wins.
PairMapping(pairs, mapping) ==
    IF Len(pairs) = 0 THEN mapping
    ELSE PairMapping(Tail(pairs),
                     [n \in DOMAIN mapping \cup {Head(pairs)[2]} |->
                        IF n = Head(pairs)[2] THEN Head(pairs)[1] ELSE mapping[n]])

\* As ForwardingDef, but the call of primary forwards no arguments.
ForwardingDefNoArgs(node, primary) ==
    FunctionDef(node.name, node.args, <<ReturnCall(primary, <<>>)>>)

\* The node that replaces a duplicate: same name and arguments, the body one
\* return of a call of primary with the node's own arguments.
ForwardingDef(node, primary) ==
    FunctionDef(node.name, node.args, <<ReturnCall(primary, node.args)>>)

refactor_duplicate_functions(t, pairs) ==
    LET mapping == PairMapping(pairs, <<>>)
    IN [k \in 1..Len(t) |->
          IF t[k].name \in DOMAIN mapping
            THEN ForwardingDef(t[k], mapping[t[k].name])
            ELSE t[k]]

(***************************************************************************)
(* analyze_block_functionality: the naming oracle                          *)
(***************************************************************************)
\* What the model call does: it raises, or it answers a text whose first
\* line, stripped of blanks and backticks, is `name`.
OracleResponses ==
    {[raises |-> TRUE, name |-> "", identifier |-> FALSE],
     [raises |-> FALSE, name |-> "helper", identifier |-> TRUE],
     [raises |-> FALSE, name |-> "common_block", identifier |-> TRUE],
     [raises |-> FALSE, name |-> "a helper", identifier |-> FALSE]}

\* The value returned when the call does not raise.
SuggestedName(resp) == IF resp.identifier THEN resp.name ELSE "common_block"

\* As UniqueName, but the suffixed name is not looked up again.
UniqueNameOnce(candidate, new_func_name, suffix, global_new_funcs) ==
    IF new_func_name \in global_new_funcs
      THEN candidate \o "_" \o ToString(suffix)
      ELSE new_func_name

RECURSIVE UniqueName(_, _, _, _)
\* while new_func_name in global_new_funcs: new_func_name = f"{candidate}_{suffix}"
UniqueName(candidate, new_func_name, suffix, global_new_funcs) ==
    IF new_func_name \in global_new_funcs
      THEN UniqueName(candidate, candidate \o "_" \o ToString(suffix), suffix + 1,
                      global_new_funcs)
      ELSE new_func_name

(***************************************************************************)
(* refactor_duplicate_blocks: the pieces of one pass over a group          *)
(***************************************************************************)
\* node.body[rep_index:rep_index+window_size] of the representative's owner,
\* an empty list when no node has that name.
RepWindow(t, rep) ==
    IF FindFunc(t, rep.func) = 0 THEN <<>>
    ELSE Slice(t[FindFunc(t, rep.func)].body, rep.start, window_size)

\* free_vars: get_free_vars of the representative's window, set() when the
\* owner is not found.
RepFreeVars(t, rep) ==
    IF FindFunc(t, rep.func) = 0 THEN {} ELSE get_free_vars(RepWindow(t, rep))

\* The helper's body: the window, with a return appended when it does not end
\* with one.  A window that starts with an assignment gets a return of its
\* first target when that target is an ast.Name, and nothing otherwise.
HelperBody(helper_body) ==
    IF Len(helper_body) = 0 \/ helper_body[Len(helper_body)].kind # "Return"
      THEN IF Len(helper_body) > 0 /\ helper_body[1].kind = "Assign"
             THEN IF helper_body[1].attr = ""
                    THEN Append(helper_body, Return(<<helper_body[1].target>>))
                    ELSE helper_body
             ELSE Append(helper_body, Return(<<NoneConst>>))
      ELSE helper_body

\* new_stmt: the call that replaces the window at start_index of a body.
NewStmt(body, start_index, new_func_name, fv) ==
    IF /\ start_index < Len(body)
       /\ body[start_index + 1].kind = "Assign"
       /\ body[start_index + 1].attr = ""
      THEN AssignCall(body[start_index + 1].target, new_func_name, Sorted(fv))
      ELSE ExprCall(new_func_name, Sorted(fv))

\* del node.body[start_index:start_index+window_size]
\* node.body.insert(start_index, new_stmt)
ReplaceWindow(body, start_index, new_stmt) ==
    Slice(body, 0, start_index) \o <<new_stmt>>
    \o Slice(body, start_index + window_size, Len(body))

(***************************************************************************)
(* State                                                                   *)
(***************************************************************************)
VARIABLES
    pc,                \* the position of the caller and of the running call
    code,              \* the uploaded program
    dup_funcs,         \* the pairs returned by detect_duplicate_functions
    dup_blocks,        \* the groups returned by detect_duplicate_blocks
    input,             \* the tree a refactoring call parsed from its code argument
    work,              \* the tree a refactoring call is rewriting
    gi,                \* refactor_duplicate_blocks: index of the current group
    oi,                \* refactor_duplicate_blocks: index of the current occurrence
    global_new_funcs,  \* refactor_duplicate_blocks: the helper names given so far
    free_vars,         \* refactor_duplicate_blocks: free_vars of the current group
    new_helper,        \* refactor_duplicate_blocks: the helper of the current group
    last,              \* refactor_duplicate_blocks: what the last step read and deleted
    out,               \* what the refactoring call returned or raised
    fv                 \* get_free_vars: the nodes given and the set returned

\* The page (src/app.py): the state of one run of main().
VARIABLES
    parses,            \* whether ast.parse accepts the uploaded text
    invoked,           \* the detectors main() has called
    raised,            \* the detectors whose call raised
    detected_smells,   \* main's list of findings, one entry per smell type
    errors,            \* the messages shown with st.error
    duplicate_funcs,   \* main's local: bound once its assignment has run
    duplicate_blocks,  \* main's local: bound once its assignment has run
    refactoring        \* what line 154 decided; "NameError" when it raised

app_vars == <<parses, invoked, raised, detected_smells, errors, duplicate_funcs,
              duplicate_blocks, refactoring>>

engine_vars == <<dup_funcs, dup_blocks, input, work, gi, oi, global_new_funcs,
                 free_vars, new_helper, last, out, fv>>

rb_vars == <<work, gi, oi, global_new_funcs, free_vars, new_helper, last>>

NoHelper == FunctionDef("", <<>>, <<>>)

NoOccurrence == [func |-> "", start |-> 0, code |-> <<>>, tokens |-> {}]

\* Nothing read or deleted yet.
NoLast ==
    [step |-> "none", occ |-> NoOccurrence, found |-> FALSE, candidate |-> "",
     taken |-> <<>>, deleted |-> <<>>, inserted |-> <<>>]

NoOut == [status |-> "none", tree |-> <<>>, error |-> ""]

Returned(t) == [status |-> "ok", tree |-> t, error |-> ""]

Raised(msg) == [status |-> "error", tree |-> <<>>, error |-> msg]

EngineInit ==
    /\ dup_funcs = <<>>
    /\ dup_blocks = <<>>
    /\ input = <<>>
    /\ work = <<>>
    /\ gi = 0
    /\ oi = 0
    /\ global_new_funcs = {}
    /\ free_vars = {}
    /\ new_helper = NoHelper
    /\ last = NoLast
    /\ out = NoOut
    /\ fv = [nodes |-> <<>>, result |-> {}]

(***************************************************************************)
(* The engine called directly: one call after another on an uploaded file  *)
(***************************************************************************)
\* A program of one to three functions with at most n statements is chosen.
Chosen(n, t) ==
    \E u \in BodyLengths(n) :
        \E b1 \in Bodies(u[1]), b2 \in Bodies(u[2]), b3 \in Bodies(u[3]) :
            t = MkProgram(Present(<<b1, b2, b3>>))

\* t is a program of one to three functions written with the statements of
\* stmts, n statements at most.
ChosenFrom(stmts, n, t) ==
    \E u \in BodyLengths(n) :
        \E b1 \in [1..u[1] -> stmts], b2 \in [1..u[2] -> stmts], b3 \in [1..u[3] -> stmts] :
            t = MkProgram(Present(<<b1, b2, b3>>))

\* t is a program of two functions with the same body of n statements at most.
Twins(n, t) ==
    \E k \in 1..n :
        \E b \in Bodies(k) : t = MkProgram(<<b, b>>)

Load ==
    /\ pc = "idle"
    /\ \/ Chosen(MaxStmts, code')
       \/ ChosenFrom(AttrStatements, MaxAttrStmts, code')
       \/ Twins(MaxTwinBody, code')
    /\ pc' = "loaded"
    /\ UNCHANGED engine_vars
    /\ UNCHANGED app_vars

DetectDuplicateFunctions ==
    /\ pc = "loaded"
    /\ dup_funcs' = detect_duplicate_functions(code)
    /\ pc' = "funcs_detected"
    /\ UNCHANGED <<code, dup_blocks, input, rb_vars, out, fv>>
    /\ UNCHANGED app_vars

DetectDuplicateBlocks ==
    /\ pc = "loaded"
    /\ dup_blocks' = detect_duplicate_blocks(code)
    /\ pc' = "blocks_detected"
    /\ UNCHANGED <<code, dup_funcs, input, rb_vars, out, fv>>
    /\ UNCHANGED app_vars

\* The code a caller hands to a refactoring call with the detected pairs or
\* groups: the file they were detected on, or a version of it in which its
\* first or its last function does not exist.
CallerTrees(c) == {c, Tail(c), SubSeq(c, 1, Len(c) - 1)}

RefactorDuplicateFunctions ==
    /\ pc = "funcs_detected"
    /\ \E t \in CallerTrees(code) :
          /\ input' = t
          /\ out' = Returned(refactor_duplicate_functions(t, dup_funcs))
    /\ pc' = "rf_done"
    /\ UNCHANGED <<code, dup_funcs, dup_blocks, rb_vars, fv>>
    /\ UNCHANGED app_vars

\* refactor_duplicate_blocks up to its loop over the groups.
RB_Start ==
    /\ pc = "blocks_detected"
    /\ \E t \in CallerTrees(code) :
          /\ input' = t
          /\ work' = t
    /\ gi' = 1
    /\ global_new_funcs' = {}
    /\ pc' = "rb_group"
    /\ UNCHANGED <<code, dup_funcs, dup_blocks, oi, free_vars, new_helper, last, out, fv>>
    /\ UNCHANGED app_vars

\* The head of the loop body: free variables, helper name, helper function.
RB_BeginGroup ==
    /\ pc = "rb_group"
    /\ gi <= Len(dup_blocks)
    /\ \E resp \in OracleResponses :
          LET rep == dup_blocks[gi][1]
              candidate == SuggestedName(resp)
              new_func_name == UniqueName(candidate, candidate, 1, global_new_funcs)
              fvs == RepFreeVars(work, rep)
          IN IF resp.raises
               THEN /\ out' = Raised("analyze_block_functionality")
                    /\ pc' = "rb_done"
                    /\ UNCHANGED <<oi, global_new_funcs, free_vars, new_helper, last>>
               ELSE /\ free_vars' = fvs
                    /\ global_new_funcs' = global_new_funcs \cup {new_func_name}
                    /\ new_helper' = FunctionDef(new_func_name, Sorted(fvs),
                                                 HelperBody(RepWindow(work, rep)))
                    /\ last' = [step |-> "helper", occ |-> rep,
                                found |-> FindFunc(work, rep.func) # 0,
                                candidate |-> candidate,
                                taken |-> RepWindow(work, rep),
                                deleted |-> <<>>, inserted |-> <<>>]
                    /\ oi' = 1
                    /\ pc' = "rb_occ"
                    /\ out' = out
    /\ UNCHANGED <<code, dup_funcs, dup_blocks, input, work, gi, fv>>
    /\ UNCHANGED app_vars

\* One occurrence of the group is replaced by a call of the helper.
RB_ReplaceOccurrence ==
    /\ pc = "rb_occ"
    /\ oi <= Len(dup_blocks[gi])
    /\ LET occ == dup_blocks[gi][oi]
           k == FindFunc(work, occ.func)
       IN IF k = 0
            THEN /\ work' = work
                 /\ last' = [step |-> "occurrence", occ |-> occ, found |-> FALSE,
                             candidate |-> last.candidate, taken |-> <<>>, deleted |-> <<>>, inserted |-> <<>>]
            ELSE LET new_stmt == NewStmt(work[k].body, occ.start, new_helper.name, free_vars)
                 IN /\ work' = [work EXCEPT
                                  ![k].body = ReplaceWindow(work[k].body, occ.start, new_stmt)]
                    /\ last' = [step |-> "occurrence", occ |-> occ, found |-> TRUE,
                                candidate |-> last.candidate, taken |-> <<>>,
                                deleted |-> Slice(work[k].body, occ.start, window_size),
                                inserted |-> <<new_stmt>>]
    /\ oi' = oi + 1
    /\ UNCHANGED <<pc, code, dup_funcs, dup_blocks, input, gi, global_new_funcs,
                   free_vars, new_helper, out, fv>>
    /\ UNCHANGED app_vars

\* tree.body.append(new_helper), and on to the next group.
RB_AppendHelper ==
    /\ pc = "rb_occ"
    /\ oi > Len(dup_blocks[gi])
    /\ work' = Append(work, new_helper)
    /\ gi' = gi + 1
    /\ pc' = "rb_group"
    /\ UNCHANGED <<code, dup_funcs, dup_blocks, input, oi, global_new_funcs,
                   free_vars, new_helper, last, out, fv>>
    /\ UNCHANGED app_vars

\* After the last group the tree is unparsed and returned.
RB_Finish ==
    /\ pc = "rb_group"
    /\ gi > Len(dup_blocks)
    /\ out' = Returned(work)
    /\ pc' = "rb_done"
    /\ UNCHANGED <<code, dup_funcs, dup_blocks, input, rb_vars, fv>>
    /\ UNCHANGED app_vars

\* Largest number of statements given to get_free_vars.
MaxBlock == 2

\* The statements get_free_vars is applied to.
FVStatements ==
    {Assign("x", <<"a", "b">>), Return(<<"x">>), Assign("y", <<"x">>),
     AugAssign("x", <<"a">>), If("c", <<Assign("b", <<"x">>)>>),
     ExprCall("log", <<"y">>), Return(<<NoneConst>>)}

GetFreeVars ==
    /\ pc = "idle"
    /\ \E n \in 0..MaxBlock : \E nodes \in [1..n -> FVStatements] :
          fv' = [nodes |-> nodes, result |-> get_free_vars(nodes)]
    /\ pc' = "fv_done"
    /\ UNCHANGED <<code, dup_funcs, dup_blocks, input, rb_vars, out>>
    /\ UNCHANGED app_vars

(***************************************************************************)
(* detect_long_methods and detect_long_parameter_list                      *)
(***************************************************************************)
\* threshold=15 of detect_long_methods, threshold=3 of detect_long_parameter_list.
LongMethodThreshold == 15
LongParamThreshold == 3

\* The non-empty source lines of a function: its def line and its body.
NonEmptyLines(fn) == 1 + Len(SelectSeq(UnparseAll(fn.body), LAMBDA l : Len(l.toks) > 0))

detect_long_methods(t) ==
    LET hits == SelectSeq(t, LAMBDA fn : NonEmptyLines(fn) > LongMethodThreshold)
    IN [k \in 1..Len(hits) |-> <<hits[k].name, NonEmptyLines(hits[k])>>]

detect_long_parameter_list(t) ==
    LET hits == SelectSeq(t, LAMBDA fn : Len(fn.args) > LongParamThreshold)
    IN [k \in 1..Len(hits) |-> <<hits[k].name, Len(hits[k].args)>>]

(***************************************************************************)
(* The page: one run of main() over an uploaded file                       *)
(***************************************************************************)
Unbound == [bound |-> FALSE, val |-> <<>>]

Bound(v) == [bound |-> TRUE, val |-> v]

AppInit ==
    /\ parses = TRUE
    /\ invoked = {}
    /\ raised = {}
    /\ detected_smells = <<>>
    /\ errors = <<>>
    /\ duplicate_funcs = Unbound
    /\ duplicate_blocks = Unbound
    /\ refactoring = "undecided"

\* Largest number of statements in a file uploaded to the page.
AppMaxStmts == 4

\* The file is read: a program, or a text that is not Python.
AppUpload ==
    /\ pc = "idle"
    /\ \/ Chosen(AppMaxStmts, code') /\ parses' = TRUE
       \/ code' = <<>> /\ parses' = FALSE
    /\ pc' = "long_methods"
    /\ UNCHANGED <<invoked, raised, detected_smells, errors, duplicate_funcs,
                   duplicate_blocks, refactoring>>
    /\ UNCHANGED engine_vars

\* Whether a detector call may raise: always on a text that does not parse,
\* and on any file when the interpreter gives up (RecursionError, MemoryError).
MayRaise == IF parses THEN BOOLEAN ELSE {TRUE}

\* As AfterTry without the except clause: an exception ends the run.
AfterTryUncaught(raises, next_pc) == IF raises THEN "end" ELSE next_pc

\* Where main() continues after a detector's try block, whether or not the
\* call raised: the except clause shows the message and falls through.
AfterTry(raises, next_pc) == next_pc

\* One try block of main(): the detector is called; its findings, if any, are
\* appended to detected_smells; an exception is shown with st.error.
TryDetector(name, type, findings, raises, next_pc) ==
    /\ invoked' = invoked \cup {name}
    /\ IF raises
         THEN /\ raised' = raised \cup {name}
              /\ errors' = Append(errors, "Could not parse file")
              /\ detected_smells' = detected_smells
         ELSE /\ raised' = raised
              /\ errors' = errors
              /\ detected_smells' =
                    IF Len(findings) > 0
                      THEN Append(detected_smells, [type |-> type, details |-> findings])
                      ELSE detected_smells
    /\ pc' = AfterTry(raises, next_pc)

AppLongMethods ==
    /\ pc = "long_methods"
    /\ \E raises \in MayRaise :
          TryDetector("detect_long_methods", "Long Method",
                      detect_long_methods(code), raises, "long_params")
    /\ UNCHANGED <<code, parses, duplicate_funcs, duplicate_blocks, refactoring>>
    /\ UNCHANGED engine_vars

AppLongParams ==
    /\ pc = "long_params"
    /\ \E raises \in MayRaise :
          TryDetector("detect_long_parameter_list", "Long Parameter List",
                      detect_long_parameter_list(code), raises, "dup_funcs")
    /\ UNCHANGED <<code, parses, duplicate_funcs, duplicate_blocks, refactoring>>
    /\ UNCHANGED engine_vars

AppDupFuncs ==
    /\ pc = "dup_funcs"
    /\ \E raises \in MayRaise :
          /\ TryDetector("detect_duplicate_functions", "Duplicate Function",
                         detect_duplicate_functions(code), raises, "dup_blocks")
          /\ duplicate_funcs' =
                IF raises THEN duplicate_funcs ELSE Bound(detect_duplicate_functions(code))
    /\ UNCHANGED <<code, parses, duplicate_blocks, refactoring>>
    /\ UNCHANGED engine_vars

\* The detail of one group: its function names and its start indices.
GroupDetail(group) ==
    [funcs |-> {group[k].func : k \in 1..Len(group)},
     indices |-> {group[k].start : k \in 1..Len(group)}]

BlockDetails(groups) == [k \in 1..Len(groups) |-> GroupDetail(groups[k])]

AppDupBlocks ==
    /\ pc = "dup_blocks"
    /\ \E raises \in MayRaise :
          /\ TryDetector("detect_duplicate_blocks", "Duplicate Block",
                         BlockDetails(detect_duplicate_blocks(code)), raises, "display")
          /\ duplicate_blocks' =
                IF raises THEN duplicate_blocks ELSE Bound(detect_duplicate_blocks(code))
    /\ UNCHANGED <<code, parses, duplicate_funcs, refactoring>>
    /\ UNCHANGED engine_vars

\* The uploaded code and detected_smells are shown.
AppDisplay ==
    /\ pc = "display"
    /\ pc' = "decide"
    /\ UNCHANGED <<code, app_vars>>
    /\ UNCHANGED engine_vars

\* if duplicate_funcs or duplicate_blocks: reading a local that was never
\* bound raises; `or` reads its right operand only when the left one is empty.
Decision ==
    IF ~duplicate_funcs.bound THEN "NameError"
    ELSE IF Len(duplicate_funcs.val) > 0 THEN "available"
    ELSE IF ~duplicate_blocks.bound THEN "NameError"
    ELSE IF Len(duplicate_blocks.val) > 0 THEN "available"
    ELSE "not available"

AppDecide ==
    /\ pc = "decide"
    /\ refactoring' = Decision
    /\ pc' = "end"
    /\ UNCHANGED <<code, parses, invoked, raised, detected_smells, errors,
                   duplicate_funcs, duplicate_blocks>>
    /\ UNCHANGED engine_vars

\* The Refactor Code button is clicked: main() runs again over the same file
\* up to the button, which now returns True.  The duplicate functions found
\* in code are refactored first; the groups found in code are then handed to
\* refactor_duplicate_blocks together with the refactored text.  Reading
\* duplicate_blocks when it was never bound raises, and the except clause
\* shows the message.
AppRefactor ==
    /\ pc = "end"
    /\ refactoring = "available"
    /\ LET refactored_code ==
              IF Len(duplicate_funcs.val) > 0
                THEN refactor_duplicate_functions(code, duplicate_funcs.val)
                ELSE code
       IN IF ~duplicate_blocks.bound
            THEN /\ errors' = Append(errors, "UnboundLocalError")
                 /\ pc' = "shown"
                 /\ UNCHANGED <<dup_blocks, input, work, gi, global_new_funcs, out>>
            ELSE IF Len(duplicate_blocks.val) > 0
                   THEN /\ dup_blocks' = duplicate_blocks.val
                        /\ input' = refactored_code
                        /\ work' = refactored_code
                        /\ gi' = 1
                        /\ global_new_funcs' = {}
                        /\ pc' = "rb_group"
                        /\ UNCHANGED <<errors, out>>
                   ELSE /\ out' = Returned(refactored_code)
                        /\ pc' = "rb_done"
                        /\ UNCHANGED <<errors, dup_blocks, input, work, gi, global_new_funcs>>
    /\ UNCHANGED <<code, parses, invoked, raised, detected_smells, duplicate_funcs,
                   duplicate_blocks, refactoring>>
    /\ UNCHANGED <<dup_funcs, oi, free_vars, new_helper, last, fv>>

\* The refactored code is shown and offered for download, or the message of
\* the exception a refactoring raised is shown.
AppShowRefactored ==
    /\ pc = "rb_done"
    /\ errors' = IF out.status = "error" THEN Append(errors, out.error) ELSE errors
    /\ pc' = "shown"
    /\ UNCHANGED <<code, parses, invoked, raised, detected_smells, duplicate_funcs,
                   duplicate_blocks, refactoring>>
    /\ UNCHANGED engine_vars

vars == <<pc, code, engine_vars, app_vars>>

Init ==
    /\ pc = "idle"
    /\ code = <<>>
    /\ EngineInit
    /\ AppInit

Next ==
    \/ Load
    \/ DetectDuplicateFunctions
    \/ DetectDuplicateBlocks
    \/ RefactorDuplicateFunctions
    \/ RB_Start
    \/ RB_BeginGroup
    \/ RB_ReplaceOccurrence
    \/ RB_AppendHelper
    \/ RB_Finish
    \/ GetFreeVars

\* The engine's calls, made one after another on an uploaded file.
Spec == Init /\ [][Next]_vars

AppNext ==
    \/ AppUpload
    \/ AppLongMethods
    \/ AppLongParams
    \/ AppDupFuncs
    \/ AppDupBlocks
    \/ AppDisplay
    \/ AppDecide
    \/ AppRefactor
    \/ RB_BeginGroup
    \/ RB_ReplaceOccurrence
    \/ RB_AppendHelper
    \/ RB_Finish
    \/ AppShowRefactored

\* One run of the page over an uploaded file, and a click on Refactor Code.
SpecApp == Init /\ [][AppNext]_vars

(***************************************************************************)
(* Properties of detect_duplicate_blocks                                   *)
(***************************************************************************)
\* The windows of the uploaded program: function index and start index.
WindowKeys ==
    {w \in (1..Len(code)) \X (0..MaxStmts) : w[2] + window_size <= Len(code[w[1]].body)}

\* Enumeration order: function declaration order, then start index.
Before(v, w) == v[1] < w[1] \/ (v[1] = w[1] /\ v[2] < w[2])

KeyTokens(w) ==
    TokenSet(UnparseAll(SubSeq(code[w[1]].body, w[2] + 1, w[2] + window_size)))

\* Jaccard similarity of the two windows is at least 0.75.
Jaccard075(v, w) ==
    /\ KeyTokens(v) \cup KeyTokens(w) # {}
    /\ 4 * Cardinality(KeyTokens(v) \cap KeyTokens(w))
          >= 3 * Cardinality(KeyTokens(v) \cup KeyTokens(w))

\* The window an occurrence of a detected group names.
KeyOf(occ) == <<FindFunc(code, occ.func), occ.start>>

SeedKey(n) == KeyOf(dup_blocks[n][1])

JoinedKeys(n) == {KeyOf(dup_blocks[n][m]) : m \in 2..Len(dup_blocks[n])}

\* The window joined the group of an earlier seed.
Joined(w) == \E n \in 1..Len(dup_blocks) : w \in JoinedKeys(n)

\* The windows that joined the group seeded by window s.
JoinedTo(s) == UNION {JoinedKeys(n) : n \in {m \in 1..Len(dup_blocks) : SeedKey(m) = s}}

\* The window is still unused when the seed s is visited.
UnusedAt(w, s) ==
    ~ \E n \in 1..Len(dup_blocks) : Before(SeedKey(n), s) /\ w \in JoinedKeys(n)

\* Three functions of one window each: A in the first, B and C in the others,
\* with sim(A,B) and sim(B,C) at least 0.75 and sim(A,C) below it.
NonTransitiveTriple(b, c) ==
    /\ Len(code) = 3
    /\ \A k \in 1..3 : Len(code[k].body) = window_size
    /\ {b, c} = {2, 3}
    /\ Jaccard075(<<1, 0>>, <<b, 0>>)
    /\ Jaccard075(<<b, 0>>, <<c, 0>>)
    /\ ~Jaccard075(<<1, 0>>, <<c, 0>>)

\* C1: detect_duplicate_blocks groups greedily against the seed only.  Every
\* occurrence is a window of the program; the seeds are the windows no
\* earlier seed claimed, visited in enumeration order; a later window that is
\* still unused joins the group of a seed exactly when it lies in another
\* function than the seed and its Jaccard similarity with the seed is at
\* least 0.75; and with three windows A, B, C in three functions, sim(A,B)
\* and sim(B,C) at least 0.75, sim(A,C) below, the result is the one group
\* (A, B), with C in no group.
C1_SeedOnlyGrouping ==
    pc = "blocks_detected" =>
      /\ \A n \in 1..Len(dup_blocks) : \A m \in 1..Len(dup_blocks[n]) :
            /\ KeyOf(dup_blocks[n][m]) \in WindowKeys
            /\ dup_blocks[n][m].tokens = KeyTokens(KeyOf(dup_blocks[n][m]))
            /\ m > 1 => Before(KeyOf(dup_blocks[n][m - 1]), KeyOf(dup_blocks[n][m]))
      /\ \A n \in 1..Len(dup_blocks) :
            /\ ~Joined(SeedKey(n))
            /\ n > 1 => Before(SeedKey(n - 1), SeedKey(n))
      /\ \A s \in WindowKeys : \A w \in WindowKeys :
            (~Joined(s) /\ Before(s, w) /\ UnusedAt(w, s)) =>
               (w \in JoinedTo(s) <=> (code[w[1]].name # code[s[1]].name /\ Jaccard075(s, w)))
      /\ \A s \in WindowKeys : \A w \in JoinedTo(s) : Before(s, w) /\ UnusedAt(w, s)
      /\ \A b \in {2, 3} : \A c \in {2, 3} :
            NonTransitiveTriple(b, c) =>
               /\ Len(dup_blocks) = 1
               /\ Len(dup_blocks[1]) = 2
               /\ SeedKey(1) = <<1, 0>>
               /\ JoinedKeys(1) = {<<b, 0>>}

\* The three windows x = y; x = y and x = y; x = a and x = a; x = a of three
\* functions were grouped.
C1_Witness ==
    /\ pc = "blocks_detected"
    /\ NonTransitiveTriple(2, 3)
    /\ Len(dup_blocks) = 1

\* C2: every detected group has at least two members and no two of them
\* lie in the same function.
C2_GroupsCrossFunction ==
    pc = "blocks_detected" =>
      \A n \in 1..Len(dup_blocks) :
         /\ Len(dup_blocks[n]) >= 2
         /\ \A i \in 1..Len(dup_blocks[n]) : \A j \in 1..Len(dup_blocks[n]) :
               i # j => dup_blocks[n][i].func # dup_blocks[n][j].func

(***************************************************************************)
(* Properties of the function-level detector and rewriter                  *)
(***************************************************************************)
\* The functions whose canonical body text an earlier function has.
LaterCopies ==
    {k \in 1..Len(code) :
        \E m \in 1..(k - 1) : CanonicalBody(code[m]) = CanonicalBody(code[k])}

\* The first-declared function with the canonical body text of function k.
FirstWithTextOf(k) ==
    CHOOSE m \in 1..k :
        /\ CanonicalBody(code[m]) = CanonicalBody(code[k])
        /\ \A j \in 1..(m - 1) : CanonicalBody(code[j]) # CanonicalBody(code[k])

\* The pairs that name the function as their duplicate.
PairsNaming(name) == {n \in 1..Len(dup_funcs) : dup_funcs[n][2] = name}

\* The pairs whose duplicate is function k.
PairsOf(k) == PairsNaming(code[k].name)

\* C5: each function with the canonical body text of an earlier one is the
\* duplicate of exactly one pair, whose primary is the first-declared
\* function with that text; a function whose text is unique is in no pair;
\* the pairs come in declaration order of their duplicates.
C5_FirstDeclaredIsPrimary ==
    pc = "funcs_detected" =>
      /\ \A k \in LaterCopies :
            /\ Cardinality(PairsOf(k)) = 1
            /\ \A n \in PairsOf(k) : dup_funcs[n][1] = code[FirstWithTextOf(k)].name
      /\ \A k \in (1..Len(code)) \ LaterCopies : PairsOf(k) = {}
      /\ \A k \in 1..Len(code) :
            (\A m \in 1..Len(code) :
                m # k => CanonicalBody(code[m]) # CanonicalBody(code[k]))
            => \A n \in 1..Len(dup_funcs) :
                  dup_funcs[n][1] # code[k].name /\ dup_funcs[n][2] # code[k].name
      /\ \A n \in 1..Len(dup_funcs) :
            /\ FindFunc(code, dup_funcs[n][2]) \in LaterCopies
            /\ n > 1 => FindFunc(code, dup_funcs[n - 1][2]) < FindFunc(code, dup_funcs[n][2])

\* Three functions with one canonical body text were paired.
C5_Witness ==
    /\ pc = "funcs_detected"
    /\ LaterCopies = {2, 3}
    /\ FirstWithTextOf(3) = 1
    /\ Len(dup_funcs) = 2

NamesMissingFunction ==
    \/ /\ pc = "rf_done"
       /\ \E n \in 1..Len(dup_funcs) : \E i \in 1..2 : FindFunc(input, dup_funcs[n][i]) = 0
    \/ /\ pc = "rb_done"
       /\ \E n \in 1..Len(dup_blocks) : \E m \in 1..Len(dup_blocks[n]) :
             FindFunc(input, dup_blocks[n][m].func) = 0

\* C3: a refactoring call whose pairs or occurrences name a function that
\* the tree does not declare fails with an error; it returns no output.
C3_MissingNameFails == NamesMissingFunction => out.status = "error"

\* C4: a failure of the naming oracle is never surfaced: the call of
\* refactor_duplicate_blocks does not end with the oracle's exception.
C4_OracleFailureNotSurfaced ==
    pc = "rb_done" => out.error # "analyze_block_functionality"

(***************************************************************************)
(* Properties of get_free_vars                                             *)
(***************************************************************************)
RECURSIVE StmtsIn(_)
\* The statements of a block, nested ones included.
StmtsIn(nodes) ==
    {nodes[i] : i \in 1..Len(nodes)} \cup UNION {StmtsIn(nodes[i].body) : i \in 1..Len(nodes)}

\* The identifiers a statement reads, outside its nested statements.
ReadBy(s) ==
    {n \in {s.value[k] : k \in 1..Len(s.value)} \cup {s.func}
            \cup (IF s.attr = "" THEN {} ELSE {s.target}) : n \notin {"", "None"}}

\* The identifiers a statement writes, outside its nested statements.
WrittenBy(s) == IF s.kind \in {"Assign", "AugAssign"} /\ s.attr = "" THEN {s.target} ELSE {}

\* C7: get_free_vars returns the identifiers read anywhere in the statements
\* minus those written anywhere in them, whatever the order of the read and
\* the write; for x = a + b; return x it returns {a, b}.
C7_FreeVarsFlowInsensitive ==
    pc = "fv_done" =>
      /\ \A n \in {IdentOrder[i] : i \in 1..Len(IdentOrder)} :
            n \in fv.result <=>
               /\ \E s \in StmtsIn(fv.nodes) : n \in ReadBy(s)
               /\ \A s \in StmtsIn(fv.nodes) : n \notin WrittenBy(s)
      /\ fv.result \subseteq {IdentOrder[i] : i \in 1..Len(IdentOrder)}
      /\ fv.nodes = <<Assign("x", <<"a", "b">>), Return(<<"x">>)>> => fv.result = {"a", "b"}

\* x is read before it is written in y = x; x = a + b and is not free.
C7_Witness ==
    /\ pc = "fv_done"
    /\ fv.nodes = <<Assign("y", <<"x">>), Assign("x", <<"a", "b">>)>>
    /\ fv.result = {"a", "b"}

(***************************************************************************)
(* Properties of refactor_duplicate_blocks                                 *)
(***************************************************************************)
\* C10: when the groups were detected on the code being rewritten, the
\* statements deleted for an occurrence, and those taken as the helper's
\* body for a representative, are the window recorded at detection.
C10_RecordedWindowsStillValid ==
    (input = code /\ last.found) =>
      /\ last.step = "occurrence" =>
            /\ Len(last.deleted) = window_size
            /\ UnparseAll(last.deleted) = last.occ.code
      /\ last.step = "helper" =>
            /\ Len(last.taken) = window_size
            /\ UnparseAll(last.taken) = last.occ.code

\* The last statement of a body is a return.
EndsWithReturn(b) == Len(b) > 0 /\ b[Len(b)].kind = "Return"

\* The return the helper of a window is said to end with when the window has
\* none: of the first statement's target when that is an assignment, of None
\* otherwise.
SaidReturn(w) ==
    IF Len(w) > 0 /\ w[1].kind = "Assign"
      THEN Return(<<TargetText(w[1])>>)
      ELSE Return(<<NoneConst>>)

\* C11: the body of every synthesized helper ends with a return: it is the
\* representative's window when that ends with a return, and otherwise the
\* window followed by a return of the first statement's target when the
\* first statement is an assignment, and of None in every other case.
C11_HelperEndsWithReturn ==
    last.step = "helper" =>
      /\ EndsWithReturn(new_helper.body)
      /\ new_helper.body = IF EndsWithReturn(last.taken)
                             THEN last.taken
                             ELSE Append(last.taken, SaidReturn(last.taken))

\* The statement said to replace deleted statements: a call of the group's
\* helper with the helper's parameters as arguments, assigned to the target
\* of the first deleted statement when that is an assignment.
SaidCall(deleted) ==
    IF Len(deleted) > 0 /\ deleted[1].kind = "Assign"
      THEN [AssignCall(deleted[1].target, new_helper.name, new_helper.args)
              EXCEPT !.attr = deleted[1].attr]
      ELSE ExprCall(new_helper.name, new_helper.args)

\* C12: for every occurrence of a group detected on the code being rewritten,
\* window_size statements are deleted at its recorded index and exactly one
\* statement is inserted: a call of the group's helper with the
\* representative's free variables in sorted order, the helper's parameter
\* list, as arguments; the call's result is assigned to the target of the
\* first deleted statement when that is an assignment, and discarded
\* otherwise.
C12_OccurrenceReplacedByOneCall ==
    (input = code /\ last.step = "occurrence" /\ last.found) =>
      /\ Len(last.deleted) = window_size
      /\ new_helper.args = Sorted(free_vars)
      /\ last.inserted = <<SaidCall(last.deleted)>>

\* The names of the helpers synthesized so far in this call.
EarlierHelpers == {work[k].name : k \in (Len(input) + 1)..Len(work)}

\* candidate when it is not in used, and otherwise candidate_k for the
\* smallest k >= 1 such that candidate_k is not in used.
SaidName(candidate, used) ==
    IF candidate \notin used THEN candidate
    ELSE LET name(k) == candidate \o "_" \o ToString(k)
             k == CHOOSE n \in 1..(Cardinality(used) + 1) :
                     /\ name(n) \notin used
                     /\ \A m \in 1..(n - 1) : name(m) \in used
         IN name(k)

\* C13: within one call of refactor_duplicate_blocks the names of the
\* synthesized helpers are pairwise distinct, whatever candidates the oracle
\* answers: a helper is named by its candidate when no earlier helper has
\* that name, and otherwise candidate_k for the smallest k >= 1 that no
\* earlier helper is named by.
C13_HelperNamesDistinct ==
    /\ \A i, j \in (Len(input) + 1)..Len(work) : i # j => work[i].name # work[j].name
    /\ last.step = "helper" =>
          /\ new_helper.name \notin EarlierHelpers
          /\ new_helper.name = SaidName(last.candidate, EarlierHelpers)

\* Three groups answered helper each: the third helper is helper_2.
C13_Witness ==
    /\ last.step = "helper"
    /\ last.candidate = "helper"
    /\ EarlierHelpers = {"helper", "helper_1"}
    /\ new_helper.name = "helper_2"

(***************************************************************************)
(* Properties of the page                                                  *)
(***************************************************************************)
Detectors ==
    {"detect_long_methods", "detect_long_parameter_list",
     "detect_duplicate_functions", "detect_duplicate_blocks"}

\* What a detector finds in the uploaded code, as main() records it.
FindingsOf(d) ==
    CASE d = "detect_long_methods" -> [type |-> "Long Method", details |-> detect_long_methods(code)]
      [] d = "detect_long_parameter_list" ->
            [type |-> "Long Parameter List", details |-> detect_long_parameter_list(code)]
      [] d = "detect_duplicate_functions" ->
            [type |-> "Duplicate Function", details |-> detect_duplicate_functions(code)]
      [] d = "detect_duplicate_blocks" ->
            [type |-> "Duplicate Block", details |-> BlockDetails(detect_duplicate_blocks(code))]

Recorded(entry) == \E i \in 1..Len(detected_smells) : detected_smells[i] = entry

\* The detectors main() has gone past at each position of the run.
PassedAt(p) ==
    CASE p = "long_params" -> {"detect_long_methods"}
      [] p = "dup_funcs" -> {"detect_long_methods", "detect_long_parameter_list"}
      [] p = "dup_blocks" -> Detectors \ {"detect_duplicate_blocks"}
      [] p \in {"idle", "long_methods"} -> {}
      [] OTHER -> Detectors

\* C8: whichever detectors raise, all four are invoked, and the findings of
\* each one that did not raise are recorded.
C8_DetectorsIsolated ==
    /\ invoked = PassedAt(pc)
    /\ PassedAt(pc) = Detectors =>
          \A d \in Detectors \ raised :
             Len(FindingsOf(d).details) > 0 => Recorded(FindingsOf(d))

\* detect_duplicate_functions raised, and the long parameter list and the
\* duplicate blocks found after it are recorded.
C8_Witness ==
    /\ pc = "display"
    /\ raised = {"detect_duplicate_functions"}
    /\ invoked = Detectors
    /\ Len(FindingsOf("detect_duplicate_blocks").details) > 0
    /\ Recorded(FindingsOf("detect_duplicate_blocks"))

(***************************************************************************)
(* Properties of the Refactor Code flow                                    *)
(***************************************************************************)
\* The window an occurrence addresses in a tree is the one recorded in it.
AddressesRecordedWindow(t, occ) ==
    /\ FindFunc(t, occ.func) # 0
    /\ UnparseAll(Slice(t[FindFunc(t, occ.func)].body, occ.start, window_size)) = occ.code

\* C14: when the page has found both duplicate functions and duplicate
\* blocks, every occurrence handed to refactor_duplicate_blocks addresses, in
\* the code that call rewrites (the output of refactor_duplicate_functions),
\* the window of statements recorded at detection.
C14_GroupsFitRewrittenCode ==
    (gi > 0 /\ Len(duplicate_funcs.val) > 0 /\ Len(duplicate_blocks.val) > 0) =>
      \A g \in 1..Len(dup_blocks) :
         \A o \in 1..Len(dup_blocks[g]) : AddressesRecordedWindow(input, dup_blocks[g][o])

\* C9: whichever detectors failed, the rest of the run, the decision whether
\* refactoring is available included, raises no further error.
C9_RunCompletesAfterFailure == refactoring # "NameError"

====
